---- MODULE Spec2Model ----
(***************************************************************************)
(* Model of the rust-cat concatenator: the scan-and-copy engine cat() of   *)
(* src/src/lib.rs and the descriptor list built by main() of               *)
(* src/src/main.rs.  Bytes are their integer values.                       *)
(***************************************************************************)
EXTENDS Integers, Sequences, FiniteSets, TLC

\* ------------------------------------------------------------------ bounds
\* at most this many entries in the `ins` vector handed to cat()
MaxSources == 3
\* at most this many content bytes in all resolved sources together, every
\* resolution failure counting as one byte
MaxBytes == 3
\* at most this many positional command-line arguments
MaxArgs == 3

\* --------------------------------------------------------------- constants
\* b'\n', the terminator searched by splitn and written by writeln!
NL == 10
\* "$", the end-of-line marker
DOLLAR == 36

PRE_LINE_NUM_INDENT == <<32, 32, 32, 32, 32>>
POST_LINE_NUM_INDENT == <<9>>
\* "cat: "
CAT_PREFIX == <<99, 97, 116, 58, 32>>

\* enum BufReadState
StartOfLine == "StartOfLine"
MiddleOfLine == "MiddleOfLine"

\* bytes the sources may hold: '\n', '$', 'a'
Alphabet == {NL, DOLLAR, 97}
\* failure messages: "no", and "o\n" (a path may hold a line break)
Messages == {<<110, 111>>, <<111, NL>>}

\* ------------------------------------------------------------------ inputs
\* one element of Vec<Result<R, Box<dyn Error>>>
OkSource(d) == [ok |-> TRUE, data |-> d]
ErrSource(m) == [ok |-> FALSE, data |-> m]

Contents(n) == UNION {[1..m -> Alphabet] : m \in 0..n}

Items(b) ==
    {OkSource(d) : d \in Contents(b)}
        \cup (IF b > 0 THEN {ErrSource(m) : m \in Messages} ELSE {})

Cost(it) == IF it.ok THEN Len(it.data) ELSE 1

RECURSIVE InputLists(_, _)
InputLists(k, b) ==
    IF k = 0 THEN {<<>>}
    ELSE {<<>>} \cup
         UNION {{<<it>> \o rest : rest \in InputLists(k - 1, b - Cost(it))} : it \in Items(b)}

\* a sequence of n copies of tag t
Tags(t, n) == [i \in 1..n |-> t]

\* ------------------------------------------------------------------- state
VARIABLES
    ins,            \* the vector of resolved sources / resolution failures
    line_nums,      \* option: number the lines
    line_ends,      \* option: mark the line ends
    short_writes,   \* whether the sink's write() may accept only a prefix
    idx,            \* position of the 'outer loop in ins (1-based)
    consumed,       \* bytes of ins[idx] already consume()d
    chunk_len,      \* length of the buffer the last fill_buf() of this call returned
    line_count,     \* local line_count of cat()
    buf_read_state, \* local buf_read_state of cat()
    out,            \* bytes the sink has accepted, in order
    out_kind,       \* for each byte of out, the statement that wrote it:
                    \* "num" annotation, "data" copied chunk bytes, "end" the
                    \* marker, "nl" the terminator, "err" the failure line
    out_src,        \* for each byte of out, the index in ins it was written for
    flushed,        \* number of bytes of out covered by the last flush()
    result,         \* "Running", or what cat() returned: "Ok" / "Err"
    io_failed,      \* an I/O call (fill_buf, write, flush) has returned an error
    run,            \* 1 in the first call of cat(), 2 in a second call on the same inputs
    prev_out,       \* what the first call wrote, kept while the second runs
    args,           \* main(): the positional arguments (Args.file)
    show,           \* main(): the flags <<show_line_numbers, show_line_ends>>
    inputs,         \* main(): the Vec<InputSource> being built
    main_pc         \* main(): position

catInputs == <<ins, line_nums, line_ends, short_writes>>
mainVars == <<args, show, inputs, main_pc>>
vars == <<catInputs, idx, consumed, chunk_len, line_count, buf_read_state, out, out_kind, out_src,
          flushed, result, io_failed, run, prev_out, mainVars>>

\* ------------------------------------------------------------ the engine
RECURSIVE Decimal(_)
\* Display of a non-negative integer: decimal digits, no leading zeros
Decimal(n) == IF n < 10 THEN <<48 + n>> ELSE Decimal(n \div 10) \o <<48 + (n % 10)>>

\* "{PRE_LINE_NUM_INDENT}{line_count}{POST_LINE_NUM_INDENT}"
Annotation(n) == PRE_LINE_NUM_INDENT \o Decimal(n) \o POST_LINE_NUM_INDENT

ErrorLineNoBreak(e) == CAT_PREFIX \o e
ErrorLineOnOwnLine(e) ==
    (IF buf_read_state = MiddleOfLine THEN <<NL>> ELSE <<>>) \o CAT_PREFIX \o e \o <<NL>>
\* writeln!(out, "cat: {e}")
ErrorLine(e) == CAT_PREFIX \o e \o <<NL>>

RECURSIVE FirstSegment(_)
\* input_buffer.splitn(2, |b| *b == b'\n').next().unwrap()
FirstSegment(buf) ==
    IF buf = <<>> \/ Head(buf) = NL THEN <<>>
    ELSE <<Head(buf)>> \o FirstSegment(Tail(buf))

\* let mut line_count = 1;
line_count_init == 1
\* let mut buf_read_state = StartOfLine;
buf_read_state_init == StartOfLine

\* entry of cat(): fresh locals, nothing written yet
CatEntry ==
    /\ idx = 1
    /\ consumed = 0
    /\ chunk_len = 0
    /\ line_count = line_count_init
    /\ buf_read_state = buf_read_state_init
    /\ out = <<>>
    /\ out_kind = <<>>
    /\ out_src = <<>>
    /\ flushed = 0
    /\ result = "Running"
    /\ io_failed = FALSE

MainIdle ==
    /\ args = <<>>
    /\ show = <<FALSE, FALSE>>
    /\ inputs = <<>>
    /\ main_pc = "none"

\* a call of cat() with a sink that accepts every byte offered (Vec<u8>, Cursor)
Init ==
    /\ ins \in InputLists(MaxSources, MaxBytes)
    /\ line_nums \in BOOLEAN
    /\ line_ends \in BOOLEAN
    /\ short_writes = FALSE
    /\ run = 1
    /\ prev_out = <<>>
    /\ CatEntry
    /\ MainIdle

Running == result = "Running"
AtSource == Running /\ idx <= Len(ins)

\* the sink accepts bytes, written by the statement kinds[i] each, for ins[idx]
Emit(bytes, kinds) ==
    /\ out' = out \o bytes
    /\ out_kind' = out_kind \o kinds
    /\ out_src' = out_src \o Tags(idx, Len(bytes))

PropagateIgnored ==
    /\ io_failed' = TRUE
    /\ result' = result
\* the ? operator on an io::Result that is Err: cat() returns it
Propagate ==
    /\ io_failed' = TRUE
    /\ result' = "Err"

ReportFailureKeepsState ==
    /\ AtSource
    /\ ~ins[idx].ok
    /\ Emit(ErrorLine(ins[idx].data), Tags("err", Len(ErrorLine(ins[idx].data))))
    /\ flushed' = Len(out')
    /\ idx' = idx + 1
    /\ consumed' = 0
    /\ UNCHANGED <<buf_read_state, chunk_len, line_count, result, io_failed, run, prev_out,
                   catInputs, mainVars>>
\* writeln!(out, "cat: {e}")?; out.flush()?; buf_read_state = StartOfLine; continue
ReportFailure ==
    /\ AtSource
    /\ ~ins[idx].ok
    /\ Emit(ErrorLine(ins[idx].data), Tags("err", Len(ErrorLine(ins[idx].data))))
    /\ flushed' = Len(out')
    /\ buf_read_state' = StartOfLine
    /\ idx' = idx + 1
    /\ consumed' = 0
    /\ UNCHANGED <<chunk_len, line_count, result, io_failed, run, prev_out, catInputs,
                   mainVars>>

\* the writeln! or the flush of the failure branch returns an error
ReportFailureIoError ==
    /\ AtSource
    /\ ~ins[idx].ok
    /\ \E written \in BOOLEAN :
          IF written
          THEN Emit(ErrorLine(ins[idx].data), Tags("err", Len(ErrorLine(ins[idx].data))))
          ELSE UNCHANGED <<out, out_kind, out_src>>
    /\ Propagate
    /\ UNCHANGED <<flushed, buf_read_state, idx, consumed, chunk_len, line_count, run,
                   prev_out, catInputs, mainVars>>

EndOfSourceAnnotates ==
    /\ AtSource
    /\ ins[idx].ok
    /\ consumed = Len(ins[idx].data)
    /\ idx' = idx + 1
    /\ consumed' = 0
    /\ chunk_len' = 0
    /\ IF buf_read_state = StartOfLine /\ line_nums
       THEN /\ Emit(Annotation(line_count), Tags("num", Len(Annotation(line_count))))
            /\ line_count' = line_count + 1
       ELSE UNCHANGED <<line_count, out, out_kind, out_src>>
    /\ UNCHANGED <<buf_read_state, flushed, result, io_failed, run, prev_out, catInputs,
                   mainVars>>
EndOfSourceResets ==
    /\ AtSource
    /\ ins[idx].ok
    /\ consumed = Len(ins[idx].data)
    /\ idx' = idx + 1
    /\ consumed' = 0
    /\ chunk_len' = 0
    /\ buf_read_state' = StartOfLine
    /\ UNCHANGED <<line_count, out, out_kind, out_src, flushed, result,
                   io_failed, run, prev_out, catInputs, mainVars>>
\* fill_buf() returns an empty buffer: break 'inner, next iteration of 'outer
EndOfSource ==
    /\ AtSource
    /\ ins[idx].ok
    /\ consumed = Len(ins[idx].data)
    /\ idx' = idx + 1
    /\ consumed' = 0
    /\ chunk_len' = 0
    /\ UNCHANGED <<line_count, buf_read_state, out, out_kind, out_src, flushed, result,
                   io_failed, run, prev_out, catInputs, mainVars>>

\* input.fill_buf()? returns an error
FillBufIoError ==
    /\ AtSource
    /\ ins[idx].ok
    /\ Propagate
    /\ UNCHANGED <<idx, consumed, chunk_len, line_count, buf_read_state, out, out_kind,
                   out_src, flushed, run, prev_out, catInputs, mainVars>>

\* the chunk fill_buf() returns: a non-empty prefix of the unread bytes
Chunk(k) == SubSeq(ins[idx].data, consumed + 1, consumed + k)
ChunkSizes == 1..(Len(ins[idx].data) - consumed)

AnnotationEveryChunk == line_nums
\* buf_read_state == StartOfLine && line_nums
AnnotationDue == buf_read_state = StartOfLine /\ line_nums

\* what out.write(segment) may return: the length of the prefix the sink accepted
\* (at least one byte of a non-empty segment)
WriteCounts(seg) ==
    IF short_writes /\ seg # <<>> THEN 1..Len(seg) ELSE {Len(seg)}

\* bytes_written < input_buffer.len()
TerminatorBranch(bytes_written, buf) == bytes_written < Len(buf)

\* the writes of one iteration of 'inner on chunk buf when out.write() returns w
NumPart == IF AnnotationDue THEN Annotation(line_count) ELSE <<>>
DataPart(buf, w) == SubSeq(buf, 1, w)
EndMarkerEveryChunk(buf, w) == IF line_ends THEN <<DOLLAR>> ELSE <<>>
EndMarker(buf, w) == IF TerminatorBranch(w, buf) /\ line_ends THEN <<DOLLAR>> ELSE <<>>
TerminatorEveryChunk(buf, w) == <<NL>>
Terminator(buf, w) == IF TerminatorBranch(w, buf) THEN <<NL>> ELSE <<>>

IterationBytes(buf, w) ==
    NumPart \o DataPart(buf, w) \o EndMarker(buf, w) \o Terminator(buf, w)
IterationKinds(buf, w) ==
    Tags("num", Len(NumPart)) \o Tags("data", Len(DataPart(buf, w)))
        \o Tags("end", Len(EndMarker(buf, w))) \o Tags("nl", Len(Terminator(buf, w)))

NoIncrement(c) == c
\* line_count += 1 (an i32; the counts reached here are far below its range)
NextLineCount(c) == c + 1

ConsumedWithoutTerminator(buf, w) == w
\* bytes_written += 1 in the terminator branch; input.consume(bytes_written)
Consumed(buf, w) == IF TerminatorBranch(w, buf) THEN w + 1 ELSE w

StateAfterAlwaysStart(buf, w) == StartOfLine
\* buf_read_state after the if / else of lines 121-134
StateAfter(buf, w) == IF TerminatorBranch(w, buf) THEN StartOfLine ELSE MiddleOfLine

FlushSkipped == UNCHANGED flushed
\* out.flush()? at the end of the iteration
Flush == flushed' = Len(out')

\* one full iteration of 'inner on a non-empty chunk
DrainChunk ==
    /\ AtSource
    /\ ins[idx].ok
    /\ \E k \in ChunkSizes :
         \E w \in WriteCounts(FirstSegment(Chunk(k))) :
            /\ Emit(IterationBytes(Chunk(k), w), IterationKinds(Chunk(k), w))
            /\ buf_read_state' = StateAfter(Chunk(k), w)
            /\ consumed' = consumed + Consumed(Chunk(k), w)
            /\ chunk_len' = k
    /\ line_count' = IF AnnotationDue THEN NextLineCount(line_count) ELSE line_count
    /\ Flush
    /\ UNCHANGED <<idx, result, io_failed, run, prev_out, catInputs, mainVars>>

\* the statements of one iteration of 'inner that can return an I/O error, in order
FaultPoints == {"num", "data", "end", "nl", "flush"}

\* whether the iteration on chunk buf with write() returning w executes the call at p
Executes(p, buf, w) ==
    CASE p = "num" -> AnnotationDue
      [] p = "data" -> TRUE
      [] p = "end" -> TerminatorBranch(w, buf) /\ line_ends
      [] p = "nl" -> TerminatorBranch(w, buf)
      [] p = "flush" -> TRUE

\* the bytes the iteration has written when the call at p returns its error
BytesBefore(p, buf, w) ==
    CASE p = "num" -> <<>>
      [] p = "data" -> NumPart
      [] p = "end" -> NumPart \o DataPart(buf, w)
      [] p = "nl" -> NumPart \o DataPart(buf, w) \o EndMarker(buf, w)
      [] p = "flush" -> IterationBytes(buf, w)

\* an iteration of 'inner cut short by a `?` on a failed write!/write/writeln!/flush
DrainChunkIoError ==
    /\ AtSource
    /\ ins[idx].ok
    /\ \E k \in ChunkSizes :
         \E w \in WriteCounts(FirstSegment(Chunk(k))) :
           \E p \in FaultPoints :
              /\ Executes(p, Chunk(k), w)
              /\ Emit(BytesBefore(p, Chunk(k), w),
                      SubSeq(IterationKinds(Chunk(k), w), 1, Len(BytesBefore(p, Chunk(k), w))))
              /\ line_count' = IF AnnotationDue /\ p # "num" THEN NextLineCount(line_count)
                               ELSE line_count
              /\ buf_read_state' = IF p \in {"num", "data"} THEN buf_read_state
                                   ELSE StateAfter(Chunk(k), w)
              /\ consumed' = IF p # "flush" THEN consumed
                             ELSE consumed + Consumed(Chunk(k), w)
              /\ chunk_len' = k
    /\ Propagate
    /\ UNCHANGED <<idx, flushed, run, prev_out, catInputs, mainVars>>

\* the for loop is over: Ok(())
Return ==
    /\ Running
    /\ idx > Len(ins)
    /\ result' = "Ok"
    /\ UNCHANGED <<idx, consumed, chunk_len, line_count, buf_read_state, out, out_kind,
                   out_src, flushed, io_failed, run, prev_out, catInputs, mainVars>>

StaleLocals == UNCHANGED <<line_count, buf_read_state>>
\* the locals of cat() are created afresh by every call (lines 86-87)
FreshLocals ==
    /\ line_count' = line_count_init
    /\ buf_read_state' = buf_read_state_init

\* cat() is called a second time on the same sources with the same options,
\* writing to a new, empty sink
SecondCall ==
    /\ result = "Ok"
    /\ run = 1
    /\ run' = 2
    /\ prev_out' = out
    /\ idx' = 1
    /\ consumed' = 0
    /\ chunk_len' = 0
    /\ FreshLocals
    /\ out' = <<>>
    /\ out_kind' = <<>>
    /\ out_src' = <<>>
    /\ flushed' = 0
    /\ result' = "Running"
    /\ UNCHANGED <<io_failed, catInputs, mainVars>>

\* cat() with a sink and sources whose I/O calls all succeed
Next ==
    \/ ReportFailure
    \/ EndOfSource
    \/ DrainChunk
    \/ Return

Spec == Init /\ [][Next]_vars

\* cat() runs to its return: the thread is never suspended for ever between two
\* statements
SpecLive == Spec /\ WF_vars(Next)

\* a call of cat() with a sink whose write() may accept only a prefix of the bytes
\* offered (any io::Write: a pipe, a socket, a slice)
InitShort ==
    /\ ins \in InputLists(MaxSources, MaxBytes)
    /\ line_nums \in BOOLEAN
    /\ line_ends \in BOOLEAN
    /\ short_writes = TRUE
    /\ run = 1
    /\ prev_out = <<>>
    /\ CatEntry
    /\ MainIdle

SpecShort == InitShort /\ [][Next]_vars

\* cat() where any fill_buf, write or flush may return an error
NextIo ==
    \/ Next
    \/ ReportFailureIoError
    \/ FillBufIoError
    \/ DrainChunkIoError

SpecIo == Init /\ [][NextIo]_vars

\* two calls of cat() in a row on the same sources and options
NextTwice ==
    \/ Next
    \/ SecondCall

SpecTwice == Init /\ [][NextTwice]_vars

\* ------------------------------------------------------------------ main()
\* the argument "-", the paths "a" and "b", and the path "-a"
ArgTokens == {<<45>>, <<97>>, <<98>>, <<45, 97>>}
ArgLists == UNION {[1..n -> ArgTokens] : n \in 0..MaxArgs}

\* enum InputSource
StdIn == <<"StdIn">>
File(path) == <<"File", path>>

MapArgByPrefix(f) == IF Head(f) = 45 THEN StdIn ELSE File(f)
\* match f.as_str() { "-" => InputSource::StdIn, _ => InputSource::File(f) }
MapArg(f) == IF f = <<45>> THEN StdIn ELSE File(f)

\* if inputs.is_empty() { inputs.push(InputSource::StdIn); }
WithDefault(list) == IF list = <<>> THEN <<StdIn>> ELSE list

\* after Args::parse(): the arguments and flags are known, nothing is built yet
InitMain ==
    /\ args \in ArgLists
    /\ show \in BOOLEAN \X BOOLEAN
    /\ inputs = <<>>
    /\ main_pc = "parsed"
    /\ ins = <<>>
    /\ line_nums = FALSE
    /\ line_ends = FALSE
    /\ short_writes = FALSE
    /\ run = 1
    /\ prev_out = <<>>
    /\ CatEntry

catVars == <<ins, short_writes, idx, consumed, chunk_len, line_count, buf_read_state, out, out_kind,
             out_src, flushed, result, io_failed, run, prev_out>>

\* args.file.into_iter().map(...).collect::<Vec<_>>()
MainCollect ==
    /\ main_pc = "parsed"
    /\ inputs' = [i \in 1..Len(args) |-> MapArg(args[i])]
    /\ main_pc' = "collected"
    /\ UNCHANGED <<args, show, line_nums, line_ends, catVars>>

\* the default when no FILE is given
MainDefault ==
    /\ main_pc = "collected"
    /\ inputs' = WithDefault(inputs)
    /\ main_pc' = "built"
    /\ UNCHANGED <<args, show, line_nums, line_ends, catVars>>

\* Concatenator::new(inputs), then with_line_numbers() / with_line_endings() as flagged
MainConfigure ==
    /\ main_pc = "built"
    /\ line_nums' = show[1]
    /\ line_ends' = show[2]
    /\ main_pc' = "configured"
    /\ UNCHANGED <<args, show, inputs, catVars>>

NextMain ==
    \/ MainCollect
    \/ MainDefault
    \/ MainConfigure

SpecMain == InitMain /\ [][NextMain]_vars

\* ------------------------------------------------------- claims: notions
Last(s) == s[Len(s)]
Entries == 1..Len(ins)
AllResolved == \A i \in Entries : ins[i].ok
Positions == 1..Len(out)

RECURSIVE ConcatContents(_)
\* the contents of the resolved sources of a list, one after the other
ConcatContents(list) ==
    IF list = <<>> THEN <<>>
    ELSE (IF Head(list).ok THEN Head(list).data ELSE <<>>) \o ConcatContents(Tail(list))

\* the number of positions of sequence s holding value v
Count(s, v) == Cardinality({i \in 1..Len(s) : s[i] = v})

\* positions of out where an annotation begins, and where the one beginning at i ends
NumStarts == {i \in Positions : out_kind[i] = "num" /\ (i = 1 \/ out_kind[i - 1] # "num")}
NumEnd(i) == CHOOSE j \in i..Len(out) :
                /\ \A m \in i..j : out_kind[m] = "num"
                /\ j = Len(out) \/ out_kind[j + 1] # "num"
\* the annotation beginning at i is the Rank(i)-th of the output
Rank(i) == Cardinality({j \in NumStarts : j <= i})

RECURSIVE DigitsValue(_)
\* the number a sequence of decimal digits denotes
DigitsValue(ds) == IF ds = <<>> THEN 0 ELSE 10 * DigitsValue(SubSeq(ds, 1, Len(ds) - 1)) + (Last(ds) - 48)

\* text is five spaces, the decimal digits of n without leading zeros, one tab
IsAnnotationOf(text, n) ==
    /\ Len(text) >= 7
    /\ \A i \in 1..5 : text[i] = 32
    /\ Last(text) = 9
    /\ \A i \in 6..(Len(text) - 1) : text[i] \in 48..57
    /\ (Len(text) > 7 => text[6] # 48)
    /\ DigitsValue(SubSeq(text, 6, Len(text) - 1)) = n

\* the bytes of out written for entry i of ins (they are contiguous)
BlockPositions(i) == {p \in Positions : out_src[p] = i}
Block(i) == [j \in 1..Cardinality(BlockPositions(i)) |->
                out[(CHOOSE p \in BlockPositions(i) : \A q \in BlockPositions(i) : p <= q) + j - 1]]
\* "cat: " + message + "\n"
DiagnosticLine(m) == <<99, 97, 116, 58, 32>> \o m \o <<10>>

\* the bytes the loop has consumed so far: the sources before idx in full and
\* the first `consumed` bytes of the current one
ConsumedSoFar ==
    ConcatContents(SubSeq(ins, 1, idx - 1))
        \o (IF idx <= Len(ins) /\ ins[idx].ok THEN SubSeq(ins[idx].data, 1, consumed) ELSE <<>>)

\* C1: with both options off and every source resolved, the output is at every
\* point exactly the bytes consumed so far, and a call that returns Ok has written
\* exactly the concatenation of the source contents, in order.
C1_Identity ==
    (~line_nums /\ ~line_ends /\ AllResolved) =>
        /\ out = ConsumedSoFar
        /\ result = "Ok" => out = ConcatContents(ins)

\* a finished run over several sources, one empty, the last ending mid-line
C1_Witness ==
    /\ result = "Ok" /\ ~line_nums /\ ~line_ends /\ AllResolved
    /\ Len(ins) = 3
    /\ \E i \in Entries : ins[i].data = <<>>
    /\ ins[3].data # <<>> /\ Last(ins[3].data) # NL
    /\ Count(out, NL) >= 1
    /\ out = ConcatContents(ins)

\* C2: with numbering on and no resolution failure, the n-th annotation in the
\* output is five spaces, decimal n, a tab, counted over all sources; the counter
\* is one more than the number of annotations written (never reset).
C2_GlobalCounter ==
    (line_nums /\ AllResolved) =>
        /\ \A i \in NumStarts : IsAnnotationOf(SubSeq(out, i, NumEnd(i)), Rank(i))
        /\ line_count = Cardinality(NumStarts) + 1

\* a finished run whose second source carries an annotation after the first's
C2_Witness ==
    /\ result = "Ok" /\ line_nums /\ AllResolved
    /\ Cardinality(NumStarts) >= 3
    /\ \E i \in NumStarts : out_src[i] >= 2 /\ Rank(i) >= 2
    /\ \E i \in NumStarts : out_src[i] = 1

\* the entry before i that last wrote anything or failed: the nearest j < i that
\* is a failure or a non-empty source (0 when there is none)
PrevWriter(i) ==
    IF \E j \in 1..(i - 1) : ~ins[j].ok \/ ins[j].data # <<>>
    THEN CHOOSE j \in 1..(i - 1) :
            /\ ~ins[j].ok \/ ins[j].data # <<>>
            /\ \A m \in (j + 1)..(i - 1) : ins[m].ok /\ ins[m].data = <<>>
    ELSE 0
\* source i is resolved and non-empty and follows a resolved source that ended mid-line
ContinuesLine(i) ==
    /\ i \in Entries /\ ins[i].ok /\ ins[i].data # <<>>
    /\ PrevWriter(i) > 0
    /\ ins[PrevWriter(i)].ok
    /\ Last(ins[PrevWriter(i)].data) # NL

\* C3, as a property of every step: the first bytes written for a source that
\* continues a line follow the previous source's last byte directly (no annotation,
\* and no marker or terminator unless the source itself begins with the terminator),
\* and the state goes from mid-line to start-of-line only in a step that writes a
\* terminator or a failure line.
C3_Step ==
    /\ (AtSource /\ consumed = 0 /\ ContinuesLine(idx) /\ out' # out) =>
          /\ buf_read_state = MiddleOfLine
          /\ out_kind'[Len(out) + 1] # "num"
          /\ (Head(ins[idx].data) # NL =>
                 /\ out'[Len(out) + 1] = Head(ins[idx].data)
                 /\ out_kind'[Len(out) + 1] = "data")
          /\ line_count' = line_count
    /\ (buf_read_state = MiddleOfLine /\ buf_read_state' = StartOfLine) =>
          /\ out' # out
          /\ Last(out_kind') \in {"nl", "err"}
          /\ Last(out') = NL
    /\ (idx' # idx /\ ins[idx].ok) => buf_read_state' = buf_read_state
C3_Continuation == [][C3_Step]_vars

\* a numbered line merged from the first and the third source, an empty one between
C3_Witness ==
    /\ result = "Ok" /\ line_nums /\ AllResolved
    /\ Len(ins) = 3 /\ ins[2].data = <<>> /\ ContinuesLine(3)
    /\ Head(ins[3].data) # NL
    /\ Cardinality(NumStarts) = 1
    /\ \E p \in Positions : p > 1 /\ out_src[p] = 3 /\ out_src[p - 1] = 1
                            /\ out_kind[p] = "data" /\ out_kind[p - 1] = "data"

\* C4: once the loop is past a failed entry i, the output holds for it exactly
\* "cat: " + message + "\n", after all bytes of earlier entries and before all
\* bytes of later ones; reporting the failure leaves the line counter alone.
C4_State ==
    /\ \A p, q \in Positions : p <= q => out_src[p] <= out_src[q]
    /\ \A i \in Entries : ~ins[i].ok =>
          Block(i) = (IF idx > i THEN DiagnosticLine(ins[i].data) ELSE <<>>)
C4_Step == (AtSource /\ ~ins[idx].ok) => line_count' = line_count
C4_FailureLine == []C4_State /\ [][C4_Step]_vars

\* a failure reported between the output of two non-empty sources, numbering on
C4_Witness ==
    /\ result = "Ok" /\ line_nums
    /\ Len(ins) = 3 /\ ins[1].ok /\ ~ins[2].ok /\ ins[3].ok
    /\ Block(1) # <<>> /\ Block(3) # <<>>
    /\ Block(2) = DiagnosticLine(ins[2].data)
    /\ line_count = 3

\* positions of out where the failure line of some entry begins
ErrStarts == {p \in Positions : out_kind[p] = "err" /\ (p = 1 \/ out_src[p - 1] # out_src[p])}

\* C5 as stated: every failure line begins an output line (a line break precedes it).
C5_OnOwnLine == \A p \in ErrStarts : p = 1 \/ out[p - 1] = NL

\* C5 as amended: a failure reported mid-line is appended to the partial line: its
\* bytes "cat: " + message + "\n" follow the partial line's last byte directly,
\* with no line break written before them.
C5_Step ==
    (AtSource /\ ~ins[idx].ok /\ buf_read_state = MiddleOfLine) =>
        /\ out # <<>>
        /\ Last(out) # NL
        /\ Last(out_kind) = "data"
        /\ out' = out \o DiagnosticLine(ins[idx].data)
C5_AppendedToLine == [][C5_Step]_vars

\* a failure line directly after a data byte of a source that ended mid-line
C5_Witness ==
    \E p \in ErrStarts : p > 1 /\ out_kind[p - 1] = "data" /\ out[p - 1] # NL
                         /\ SubSeq(out, p, p + 4) = <<99, 97, 116, 58, 32>>

\* C6 as stated: with marking on, every 0x0A of the output has exactly one '$'
\* right before it and no '$' is anywhere else.
C6_EveryTerminatorMarked ==
    line_ends =>
        \A p \in Positions :
            /\ out[p] = NL =>
                  /\ p > 1 /\ out[p - 1] = DOLLAR
                  /\ p > 2 => out[p - 2] # DOLLAR
            /\ out[p] = DOLLAR => (p < Len(out) /\ out[p + 1] = NL)

\* C6 as amended: with marking on, every terminator copied from a source has
\* exactly one marker '$' written by the engine right before it and the engine
\* writes the marker nowhere else; the 0x0A bytes of a failure line get none, and
\* '$' bytes of the contents are copied as data.  With marking off no marker is written.
C6_MarkedTerminators ==
    \A p \in Positions :
        /\ out_kind[p] = "end" => (line_ends /\ out[p] = DOLLAR)
        /\ out_kind[p] = "end" => (p < Len(out) /\ out_kind[p + 1] = "nl")
        /\ out_kind[p] = "data" => out[p] # NL
        /\ out_kind[p] = "nl" => out[p] = NL
        /\ (line_ends /\ out_kind[p] = "nl") =>
              /\ p > 1 /\ out_kind[p - 1] = "end"
              /\ p > 2 => out_kind[p - 2] # "end"
        /\ (out_kind[p] = "err" /\ out[p] = NL) => (p > 1 /\ out_kind[p - 1] = "err")

\* marking on: a '$' copied from the contents, a marked terminator, a failure line
C6_Witness ==
    /\ result = "Ok" /\ line_ends
    /\ \E p \in Positions : out_kind[p] = "data" /\ out[p] = DOLLAR
    /\ \E p \in Positions : out_kind[p] = "nl" /\ out_kind[p - 1] = "end"
    /\ \E p \in Positions : out_kind[p] = "err" /\ out[p] = NL

\* C7: once an I/O call has failed, cat() has returned the error and nothing is
\* read, consumed, written or flushed any more; the failing step itself stays in
\* the current source and completes no flush.
C7_State == io_failed => result = "Err"
C7_Step ==
    /\ io_failed => UNCHANGED <<out, out_kind, idx, consumed, flushed, line_count, result>>
    /\ (~io_failed /\ io_failed') => (result' = "Err" /\ idx' = idx /\ flushed' = flushed)
C7_Fatal == []C7_State /\ [][C7_Step]_vars

\* the error came while a source still had unread bytes and later entries remained
C7_Witness ==
    /\ io_failed /\ result = "Err"
    /\ idx < Len(ins) /\ ins[idx].ok /\ consumed < Len(ins[idx].data)
    /\ out # <<>>

RECURSIVE FailureCount(_)
\* the number of resolution failures in a list
FailureCount(list) ==
    IF list = <<>> THEN 0
    ELSE (IF Head(list).ok THEN 0 ELSE 1) + FailureCount(Tail(list))

RECURSIVE FailureBreaks(_)
\* the 0x0A bytes of the failure lines of a list: for every failure, the 0x0A
\* bytes of its message and the one that ends the line
FailureBreaks(list) ==
    IF list = <<>> THEN 0
    ELSE (IF Head(list).ok THEN 0 ELSE Count(Head(list).data, NL) + 1)
            + FailureBreaks(Tail(list))

EndsMidLine == /\ Len(ins) > 0 /\ Last(ins).ok
               /\ Last(ins).data # <<>> /\ Last(Last(ins).data) # NL

\* C8 as stated: a last source ending mid-line leaves the output without a final
\* 0x0A or marker; the output holds as many 0x0A bytes as the contents plus the
\* number of failures; with marking on, as many markers as the contents hold 0x0A.
C8_CountsAsStated ==
    result = "Ok" =>
        /\ EndsMidLine => (Last(out) # NL /\ Last(out_kind) # "end")
        /\ Count(out, NL) = Count(ConcatContents(ins), NL) + FailureCount(ins)
        /\ line_ends => Count(out_kind, "end") = Count(ConcatContents(ins), NL)

\* C8 as amended: the 0x0A bytes of the output are those of the contents consumed
\* plus, for every failure reported, the 0x0A bytes of its message and the one
\* ending its line; the markers added are as many as the 0x0A bytes consumed when
\* marking is on and none otherwise; after a last source that ends mid-line the
\* output ends with that source's last byte.
C8_Counts ==
    /\ Count(out, NL) = Count(ConsumedSoFar, NL) + FailureBreaks(SubSeq(ins, 1, idx - 1))
    /\ Count(out_kind, "nl") = Count(ConsumedSoFar, NL)
    /\ Count(out_kind, "end") = (IF line_ends THEN Count(ConsumedSoFar, NL) ELSE 0)
    /\ result = "Ok" =>
          /\ ConsumedSoFar = ConcatContents(ins)
          /\ EndsMidLine => (Last(out) = Last(Last(ins).data) /\ Last(out_kind) = "data")

\* marking on, a failure whose message holds a 0x0A, a last source ending mid-line
C8_Witness ==
    /\ result = "Ok" /\ line_ends /\ EndsMidLine
    /\ \E i \in Entries : ~ins[i].ok /\ Count(ins[i].data, NL) > 0
    /\ Count(out, NL) = 2
    /\ Count(out_kind, "end") = 0

\* C9: a second call on the same sources and options starts with the counter at 1
\* and at start-of-line, writes a prefix of what the first call wrote while it
\* runs, and has written the same bytes when it returns.
C9_Idempotent ==
    /\ (Running /\ idx = 1 /\ consumed = 0) =>
          (line_count = 1 /\ buf_read_state = StartOfLine /\ out = <<>>)
    /\ run = 2 =>
          /\ Len(out) <= Len(prev_out)
          /\ out = SubSeq(prev_out, 1, Len(out))
          /\ result = "Ok" => out = prev_out

\* a second call finished, after a first that ended mid-line with the counter past 1
C9_Witness ==
    /\ run = 2 /\ result = "Ok" /\ line_nums
    /\ buf_read_state = MiddleOfLine
    /\ line_count >= 3
    /\ out = prev_out /\ out # <<>>

\* C10: the descriptor list main() builds has one descriptor per argument, in the
\* arguments' order, standard input for "-" and the named file for anything else;
\* with no argument it is exactly one standard-input descriptor.
C10_Descriptors ==
    /\ main_pc = "collected" =>
          /\ Len(inputs) = Len(args)
          /\ \A i \in 1..Len(args) :
                /\ args[i] = <<45>> => inputs[i] = <<"StdIn">>
                /\ args[i] # <<45>> => inputs[i] = <<"File", args[i]>>
    /\ main_pc \in {"built", "configured"} =>
          IF args = <<>> THEN inputs = <<<<"StdIn">>>>
          ELSE /\ Len(inputs) = Len(args)
               /\ \A i \in 1..Len(args) :
                     /\ args[i] = <<45>> => inputs[i] = <<"StdIn">>
                     /\ args[i] # <<45>> => inputs[i] = <<"File", args[i]>>

\* a list built from a path, "-" and a path that begins with '-', in that order
C10_Witness ==
    /\ main_pc = "built"
    /\ args = <<<<97>>, <<45>>, <<45, 97>>>>
    /\ inputs = <<<<"File", <<97>>>>, <<"StdIn">>, <<"File", <<45, 97>>>>>>

\* ------------------------------------------------- a byte-by-byte reference
\* what the sources hand over, one event per content byte or resolution failure
ByteEvent(b) == [fail |-> FALSE, byte |-> b, msg |-> <<>>]
FailEvent(m) == [fail |-> TRUE, byte |-> 0, msg |-> m]

RECURSIVE Events(_)
Events(list) ==
    IF list = <<>> THEN <<>>
    ELSE (IF Head(list).ok
          THEN [i \in 1..Len(Head(list).data) |-> ByteEvent(Head(list).data[i])]
          ELSE <<FailEvent(Head(list).data)>>) \o Events(Tail(list))

\* the events the loop is past: the entries before idx and the consumed bytes of ins[idx]
EventsSoFar ==
    Events(SubSeq(ins, 1, idx - 1))
        \o (IF idx <= Len(ins) /\ ins[idx].ok
            THEN [i \in 1..consumed |-> ByteEvent(ins[idx].data[i])] ELSE <<>>)

RECURSIVE RefDigits(_)
RefDigits(n) == IF n = 0 THEN <<>> ELSE RefDigits(n \div 10) \o <<48 + (n % 10)>>
\* five spaces, n in decimal (n >= 1), a tab
RefNumber(n) == <<32, 32, 32, 32, 32>> \o RefDigits(n) \o <<9>>

RECURSIVE Ref(_)
\* the output for a sequence of events, decided one event at a time: o the bytes,
\* sol whether the next byte starts a line, n the next line number
Ref(ev) ==
    IF ev = <<>> THEN [o |-> <<>>, sol |-> TRUE, n |-> 1]
    ELSE LET r == Ref(SubSeq(ev, 1, Len(ev) - 1))
             e == ev[Len(ev)]
             numbered == r.sol /\ line_nums
             num == IF numbered THEN RefNumber(r.n) ELSE <<>>
             n2 == IF numbered THEN r.n + 1 ELSE r.n
         IN  IF e.fail
             THEN [o |-> r.o \o <<99, 97, 116, 58, 32>> \o e.msg \o <<10>>, sol |-> TRUE, n |-> r.n]
             ELSE IF e.byte = 10
             THEN [o |-> r.o \o num \o (IF line_ends THEN <<36>> ELSE <<>>) \o <<10>>,
                   sol |-> TRUE, n |-> n2]
             ELSE [o |-> r.o \o num \o <<e.byte>>, sol |-> FALSE, n |-> n2]

\* C11: whatever chunks the sources return, the output is the one the contents,
\* failures and options determine byte by byte: at every point the reference
\* output of the events consumed so far, and of all of them when cat() returns Ok.
C11_ChunkingIndependent ==
    /\ out = Ref(EventsSoFar).o
    /\ result = "Ok" => out = Ref(Events(ins)).o

\* numbering on: a chunk "a\na" holding more than one line was consumed up to its
\* terminator, so the next chunk begins right after a terminator
C11_Witness ==
    /\ AtSource /\ ins[idx].ok /\ line_nums
    /\ ins[idx].data = <<97, 10, 97>>
    /\ chunk_len = 3 /\ consumed = 2
    /\ out = Ref(EventsSoFar).o
    /\ out # <<>>

\* the bytes a step appends to the output
Appended == SubSeq(out', Len(out) + 1, Len(out'))
AppendedKinds == SubSeq(out_kind', Len(out) + 1, Len(out'))
\* the length of the run of "num" bytes a sequence of kinds begins with
NumPrefixLen(kinds) ==
    Cardinality({i \in 1..Len(kinds) : \A j \in 1..i : kinds[j] = "num"})
\* source i is resolved and non-empty and the nearest entry before it that is a
\* failure or a non-empty source is a failure
FollowsFailure(i) ==
    /\ i \in Entries /\ ins[i].ok /\ ins[i].data # <<>>
    /\ PrevWriter(i) > 0
    /\ ~ins[PrevWriter(i)].ok

\* C12, as a property of every step: reporting a failure leaves the engine at
\* start-of-line whatever the state was, and with numbering on the first write for
\* the next non-empty resolved source begins with the annotation of the current
\* counter value, which is one more than the annotations written before the failure.
C12_Step ==
    /\ (AtSource /\ ~ins[idx].ok) => buf_read_state' = StartOfLine
    /\ (AtSource /\ consumed = 0 /\ FollowsFailure(idx) /\ out' # out) =>
          /\ buf_read_state = StartOfLine
          /\ line_nums =>
                /\ NumPrefixLen(AppendedKinds) >= 7
                /\ IsAnnotationOf(SubSeq(Appended, 1, NumPrefixLen(AppendedKinds)),
                                  Cardinality(NumStarts) + 1)
                /\ line_count' = Cardinality(NumStarts) + 2
C12_AfterFailure == [][C12_Step]_vars

\* numbering on: a source ending mid-line, a failure, then a source whose first
\* bytes carry annotation 2
C12_Witness ==
    /\ result = "Ok" /\ line_nums
    /\ Len(ins) = 3 /\ ins[1].ok /\ ~ins[2].ok /\ FollowsFailure(3)
    /\ ins[1].data # <<>> /\ Last(ins[1].data) # NL
    /\ \E p \in NumStarts : out_src[p] = 3 /\ Rank(p) = 2 /\ out[p - 1] = NL
                            /\ out_kind[p - 1] = "err"

\* the position where the output line holding position p begins
LineStart(p) == CHOOSE q \in 1..p :
                    /\ q = 1 \/ out[q - 1] = NL
                    /\ \A m \in q..(p - 1) : out[m] # NL

\* C13: every annotation begins at the start of the output or right after a 0x0A;
\* with numbering on, every byte written for source contents lies on a line that
\* begins with an annotation, so a line has exactly one however many chunks or
\* sources it spans; the counter is 1 plus the number of annotations written (1
\* throughout with numbering off); an annotation is written only in a step that
\* starts at start-of-line and consumes bytes of a non-empty chunk.
C13_State ==
    /\ \A i \in NumStarts : i = 1 \/ out[i - 1] = NL
    /\ line_nums =>
          \A p \in Positions :
              out_kind[p] \in {"data", "end", "nl"} =>
                  /\ LineStart(p) \in NumStarts
                  /\ \A i \in NumStarts : (LineStart(p) <= i /\ i <= p) => i = LineStart(p)
    /\ ~line_nums => NumStarts = {}
    /\ line_count = Cardinality(NumStarts) + 1
C13_Step ==
    (\E p \in (Len(out) + 1)..Len(out') : out_kind'[p] = "num") =>
        /\ line_nums /\ buf_read_state = StartOfLine
        /\ chunk_len' >= 1 /\ consumed' > consumed
        /\ out_kind'[Len(out) + 1] = "num"
        /\ line_count' = line_count + 1
C13_AnnotationPlacement == []C13_State /\ [][C13_Step]_vars

\* numbering on: a first line begun by one source and continued by the next
\* carries one annotation, the following line the second
C13_Witness ==
    /\ result = "Ok" /\ line_nums /\ AllResolved
    /\ Len(ins) >= 2 /\ ContinuesLine(2)
    /\ Cardinality(NumStarts) = 2
    /\ line_count = 3
    /\ \E p \in Positions : out_src[p] = 2 /\ out_kind[p] \in {"data", "nl"}
                            /\ LineStart(p) = 1
    /\ \E i \in NumStarts : i > 1 /\ out[i - 1] = NL

\* C14: whenever cat() is at the top of its loops, about to ask a source for its
\* next chunk or to take the next entry, or has returned Ok, every byte written so
\* far is covered by a flush; this holds also when I/O calls may fail.
C14_Flushed == result \in {"Running", "Ok"} => flushed = Len(out)

\* mid-line after a chunk without terminator, about to request the next chunk of
\* the same source, with the partial line already flushed
C14_Witness ==
    /\ AtSource /\ ins[idx].ok
    /\ 0 < consumed /\ consumed < Len(ins[idx].data)
    /\ buf_read_state = MiddleOfLine
    /\ out # <<>> /\ flushed = Len(out)
    /\ \E p \in Positions : out_kind[p] = "err"

RECURSIVE WithoutEmpty(_)
\* a list of entries with its empty resolved sources left out
WithoutEmpty(list) ==
    IF list = <<>> THEN <<>>
    ELSE (IF Head(list).ok /\ Head(list).data = <<>> THEN <<>> ELSE <<Head(list)>>)
            \o WithoutEmpty(Tail(list))

AtEmptySource == AtSource /\ ins[idx].ok /\ ins[idx].data = <<>>

\* C15: draining an empty resolved source writes nothing and leaves the counter,
\* the line-position state and the flush mark as they were; no byte of the output
\* belongs to an empty source, and the output of a finished call is the one the
\* list without its empty sources determines.
C15_Step ==
    AtEmptySource =>
        /\ idx' = idx + 1
        /\ UNCHANGED <<out, out_kind, out_src, line_count, buf_read_state, flushed>>
C15_State ==
    /\ \A i \in Entries : (ins[i].ok /\ ins[i].data = <<>>) => BlockPositions(i) = {}
    /\ result = "Ok" => out = Ref(Events(WithoutEmpty(ins))).o
C15_EmptySource == []C15_State /\ [][C15_Step]_vars

\* numbering on: an empty source met at start-of-line, between a source that ended
\* with a terminator and a non-empty one, got no annotation
C15_Witness ==
    /\ result = "Ok" /\ line_nums
    /\ Len(ins) = 3 /\ AllResolved
    /\ ins[1].data # <<>> /\ Last(ins[1].data) = NL
    /\ ins[2].data = <<>>
    /\ ins[3].data # <<>>
    /\ BlockPositions(2) = {}
    /\ Cardinality(NumStarts) = 2
    /\ line_count = 3

\* the source being drained has bytes left: the next fill_buf returns a non-empty chunk
ChunkPending == AtSource /\ ins[idx].ok /\ consumed < Len(ins[idx].data)

\* C16: an iteration that receives a non-empty chunk consumes at least one byte and
\* at most the chunk's length, never more than the source holds; and when no I/O
\* call fails cat() eventually returns Ok, having consumed every source to its end.
C16_Step ==
    ChunkPending =>
        /\ idx' = idx
        /\ chunk_len' \in 1..(Len(ins[idx].data) - consumed)
        /\ consumed' - consumed \in 1..chunk_len'
C16_State ==
    result = "Ok" => idx = Len(ins) + 1 /\ ConsumedSoFar = ConcatContents(ins)
C16_Termination == [][C16_Step]_vars /\ []C16_State /\ <>(result = "Ok")

\* a finished call over three sources of one byte each, with a failure in no place
C16_Witness ==
    /\ result = "Ok" /\ AllResolved
    /\ Len(ins) = 3
    /\ \A i \in Entries : Len(ins[i].data) = 1
    /\ idx = 4
    /\ Len(out) >= 3

\* C17: with a sink that may accept only a prefix, both options off and every
\* source resolved, the output is at every point exactly the bytes consumed so far
\* (every source byte once, in order), and every terminator the terminator branch
\* wrote stands for a 0x0A of the sources.
C17_ShortWriteSafe ==
    (short_writes /\ ~line_nums /\ ~line_ends /\ AllResolved) =>
        /\ Len(out) = Len(ConsumedSoFar)
        /\ \A p \in Positions : out[p] = ConsumedSoFar[p]
        /\ Count(out_kind, "nl") = Count(ConsumedSoFar, NL)

====
